---- MODULE Spec2Model ----
(***************************************************************************)
(* Model of lib/auth.js: the Auth singleton that loads or generates the    *)
(* RSA key pair (checkRSAKeys), hands it to api/auth nodes (verifyKeys)    *)
(* and creates or loads root credentials for core nodes (verifyUser,       *)
(* checkUser).  Every await of the source is a suspension point and is a   *)
(* separate action here; the code between two awaits runs atomically on    *)
(* the single JavaScript thread and is one action.  An fs.writeFile is     *)
(* three such steps: open, write, close.  An fs.readFile of                *)
(* credentials.json is open, fstat, read, a further read when the first    *)
(* did not reach the reported size, and close.                             *)
(***************************************************************************)
EXTENDS Naturals, Sequences, FiniteSets

(* ---------------------------------------------------------------- bounds *)

\* number of verify() calls the loader issues in one process
MaxCalls == 2
\* number of verify() calls in the runs restricted to core nodes
MaxCoreCalls == 3
\* number of things that may go wrong in one run: failing I/O operations
\* and losses of credentials.json together
MaxFaults == 1
\* number of times an operator loses credentials.json in one run
MaxLoss == 1
\* number of node ids an earlier process has left credentials for
MaxPrior == 2
\* number of user records of one id that earlier processes have left
MaxRecords == 3

Calls == 1..(IF MaxCoreCalls > MaxCalls THEN MaxCoreCalls ELSE MaxCalls)

(* --------------------------------------------------------------- domains *)

\* node ids: the distinguished node, another node, and a node whose id is
\* the name of a property that every object inherits from Object.prototype
Ids == {"auth_core", "jobs_core", "toString"}
\* the ids for which obj[id] is an inherited function, its own entries aside
Inherited == {"toString"}
Types == {"api", "auth", "core", "other"}

NoFile == "<absent>"
\* a file that exists and holds no text
EmptyFile == ""
NoVal == <<>>
NoUrl == "<pending>"
DiskPrivate == "disk.private"
DiskPublic == "disk.public"
ProvidedUrl == "mongodb://provided"
LocalUrl == "mongodb://local"

\* generateKeys(): the keypair package returns a new {public, private} pair
generateKeys == [private |-> "generated.private", public |-> "generated.public"]

\* randtoken.uid(256): a fresh random token, named by the checkUser call c
\* that draws it and the position k of the draw in that call (1: user_key,
\* 2: user_secret, 3: the refresh token's tail); tokens are strings,
\* modelled as sequences so that concatenation is \o
uid(c, k) == <<c, k>>

\* bcrypt.hash(secret): a one-way digest; bcrypt output starts with a
\* version prefix ("$2a$..."), modelled by the leading 0, which no token has
BcryptHashPlain(secret) == secret
BcryptHash(secret) == <<0>> \o secret

\* what credentials.json can be: absent; "corrupt", text that JSON.parse
\* rejects (the empty file included); the JSON text null; "primitive", the
\* JSON text of a number, string or boolean; "array"; or "ok", an object
\* with one entry per cached id
FileStates == {"absent", "corrupt", "null", "primitive", "array", "ok"}

\* an object without entries of its own
EmptyCredentials == [i \in Ids |-> NoVal]
EmptyObject == [kind |-> "object", entries |-> EmptyCredentials]

\* JSON.parse(readFile(credentials.json)) with the surrounding try/catch:
\* a missing or unparseable file leaves credentials = {}; valid JSON is
\* assigned whatever it is, and only an object has entries
ParseCredentials(state, map) ==
  CASE state = "ok" -> [kind |-> "object", entries |-> map]
    [] state \in {"null", "primitive", "array"} ->
         [kind |-> state, entries |-> EmptyCredentials]
    [] OTHER -> EmptyObject

\* JSON.stringify(credentials) as written to the file: the named properties
\* of an array are not serialized, the text is that of the array itself
Stringify(creds) ==
  IF creds.kind = "array"
    THEN [state |-> "array", map |-> EmptyCredentials]
    ELSE [state |-> "ok", map |-> creds.entries]

\* randtoken.uid(256): the number of characters of a token
UidLen == 256

\* the number of characters of a node id
IdLen(i) == IF i = "toString" THEN 8 ELSE 9

\* the length of one entry in the text of JSON.stringify(credentials, null,
\* 2): the id, two tokens, and 53 characters of names, quotes, braces and
\* indentation
EntryLen(i) == IdLen(i) + 2 * UidLen + 53

RECURSIVE SumLen(_)
SumLen(S) ==
  IF S = {} THEN 0
  ELSE LET i == CHOOSE x \in S : TRUE IN EntryLen(i) + 2 + SumLen(S \ {i})

\* the length of a JSON text: of `{`, the entries, each with its
\* separator, and `}` for an object; of `[]`, `null` or a short literal
\* otherwise; 0 for the empty text
TextLen(state, map) ==
  CASE state = "ok" -> 2 + SumLen({i \in Ids : map[i] # NoVal})
    [] state = "null" -> 4
    [] state \in {"array", "primitive"} -> 2
    [] OTHER -> 0

\* a text: what JSON.parse makes of it, and its entries when that is an
\* object
Text(state, map) == [state |-> state, map |-> map]
LenOf(t) == TextLen(t.state, t.map)

\* the empty text, which JSON.parse rejects
NoText == Text("corrupt", EmptyCredentials)

\* a file that holds exactly the text t.  A file in general is what
\* JSON.parse makes of all its bytes (state, map), its length (len), and
\* the text its first bytes spell (head): these differ when a short text
\* was written over the start of a longer one
Whole(t) == [state |-> t.state, map |-> t.map, head |-> t, len |-> LenOf(t)]

\* no file
NoInode == [state |-> "absent", map |-> EmptyCredentials, head |-> NoText,
            len |-> 0]

\* what a file f holds after text t is written at offset 0 through a
\* descriptor of it: the text, or, when the file is longer than the text
\* (another writeFile has written since this one truncated it), the text
\* followed by the tail of what was there, which is not JSON
Overwrite(t, f) ==
  IF LenOf(t) >= f.len
    THEN Whole(t)
    ELSE [state |-> "corrupt", map |-> EmptyCredentials, head |-> t,
          len |-> f.len]

\* the first n bytes of file f, or all of it when it is not longer: the
\* text they spell and their number
FirstBytes(f, n) ==
  IF n >= f.len
    THEN [text |-> Text(f.state, f.map), len |-> f.len]
    ELSE IF f.head.state # "corrupt" /\ LenOf(f.head) = n
           THEN [text |-> f.head, len |-> n]
           ELSE [text |-> NoText, len |-> n]

\* the user document of lines 129-136
NewUser(i, key, secret, token) ==
  [user_key |-> key, user_secret |-> BcryptHash(secret), user_id |-> i,
   last_ip |-> <<>>, scope |-> "write_root", refresh_token |-> key \o token]

\* credentials[id] = {user_key, user_secret}
WithEntry(creds, i, key, secret) ==
  [creds EXCEPT !.entries[i] = [user_key |-> key, user_secret |-> secret]]

\* what earlier calls left when they created credentials of id i: the g-th
\* of them drew the tokens EarlierUid(g, i, 1..3) and inserted the record
\* EarlierUser(g, i)
EarlierUid(g, i, k) == uid(0, 6 * g + (IF i = "auth_core" THEN k ELSE 3 + k))
EarlierUser(g, i) ==
  NewUser(i, EarlierUid(g, i, 1), EarlierUid(g, i, 2), EarlierUid(g, i, 3))

\* the call whose entry credentials.json holds, where it holds one: its
\* tokens, the entry and the record in the store
PriorUid(i, k) == EarlierUid(0, i, k)
PriorEntry(i) == [user_key |-> PriorUid(i, 1), user_secret |-> PriorUid(i, 2)]
PriorUser(i) == EarlierUser(0, i)

\* the ids earlier processes have bootstrapped
Named == Ids \ Inherited

\* the object text with the entries earlier processes wrote for the ids in S
PriorText(S) ==
  Text("ok", [i \in Ids |-> IF i \in S THEN PriorEntry(i) ELSE NoVal])

\* the text `[]`, which checkUser writes back when it has read an array
ArrayText == Text("array", EmptyCredentials)

\* the texts checkUser writes: `[]`, and an object with the entries of some
\* ids
WrittenTexts == {ArrayText} \cup {PriorText(S) : S \in (SUBSET Named) \ {{}}}

\* lengths of a primitive: `7`, `42`, `true`
PrimitiveLens == {1, 2, 4}

\* length of a file that is no JSON text and starts with none, such as an
\* object text cut off after its first key
JunkLens == {14}

\* lengths of the files that are no JSON text: those of the object texts
\* checkUser writes, of which a shorter text written over the start leaves
\* the tail, and those of other files
PartialLens == JunkLens \cup {LenOf(t) : t \in WrittenTexts \ {ArrayText}}

\* a file of n bytes that JSON.parse rejects and whose first bytes spell the
\* text h
Partial(h, n) ==
  [state |-> "corrupt", map |-> EmptyCredentials, head |-> h, len |-> n]

\* the credentials.json a process can find at start: none; an empty file (a
\* writeFile failed after its open); the texts null, `[]`, a primitive; an
\* object with the entries of any of the ids, `{}` included; a text
\* checkUser wrote followed by the tail of a longer one (two writeFile calls
\* of an earlier process overlapped); any other text that is not JSON
StartFiles ==
  {NoInode}
    \cup {Whole(Text(st, EmptyCredentials)) : st \in {"corrupt", "null", "array"}}
    \cup {[Whole(Text("primitive", EmptyCredentials)) EXCEPT !.len = n] :
            n \in PrimitiveLens}
    \cup {Whole(PriorText(S)) : S \in SUBSET Named}
    \cup UNION {{Partial(h, n) :
                    h \in {t \in WrittenTexts \cup {NoText} : LenOf(t) < n}} :
                  n \in PartialLens}

\* the user records a process can find at start: for each id any of the
\* records earlier calls inserted, the one that matches the entry in
\* credentials.json or others (concurrent calls for one id each insert
\* theirs, as do calls after a lost credentials.json)
StartRecords == {EarlierUser(g, i) : g \in 0..(MaxRecords - 1), i \in Named}

\* config.provided.mongoUrl || config.local.mongoUrl
TargetUrl(prov) == IF prov.mongoUrl # NoUrl THEN prov.mongoUrl ELSE LocalUrl

EmptyLocal == [certPublic |-> NoFile, certPrivate |-> NoFile,
               userKey |-> NoVal, userSecret |-> NoVal]
NoProvided == [userSecret |-> FALSE, mongoUrl |-> NoUrl]

(* ----------------------------------------------------------------- state *)

VARIABLES
  keyPc,        \* position of checkRSAKeys
  certPrivate,  \* this.certPrivate
  certPublic,   \* this.certPublic
  ready,        \* this.ready has resolved
  keyFiles,     \* auth.private.pem, auth.public.pem, .gitignore on disk
  dirs,         \* which of config/ and config/certs/ exist
  genCount,     \* number of generateKeys() calls
  authDb,       \* value this.authDb resolved with, NoUrl while pending
  complete,     \* this.complete: the call whose checkUser promise it holds
  vpc,          \* position of each verify() call
  upc,          \* position of each checkUser() call
  ctype, cid, provided, local,   \* arguments of each verify() call
  awaited,      \* the promise each verifyUser awaits at line 96
  credentials,  \* checkUser's local 'credentials'
  user_key, user_secret,         \* checkUser's locals
  dbUrl,        \* url each checkUser connected with
  users,        \* the users collection of the shared store
  inflight,     \* insertOne requests issued and not yet applied, each
                \* with the call that issued it
  credState,    \* credentials.json: one of FileStates
  credMap,      \* credentials.json contents when "ok"
  credLen,      \* credentials.json: length of the text
  credHead,     \* credentials.json: the text its first bytes spell
  orphan,       \* the file that was credentials.json until it was unlinked,
                \* while a descriptor of it is still open
  rsize,        \* each checkUser's readFile: the size fstat reported, then
                \* the number of bytes read so far
  rbuf,         \* each checkUser's readFile: what it has read
  fd,           \* the descriptor each checkUser's readFile or writeFile
                \* holds: "closed", "open" on credentials.json, or
                \* "unlinked"
  ops,          \* collaborator operations each call has issued
  errors,       \* operations of each call that failed
  faults,       \* failed I/O operations so far
  losses,       \* times credentials.json was lost so far
  unhandled,    \* what Node did on a rejection nobody handles: "none" so
                \* far, "warn", or "exit"
  atStart,      \* the files and directories found when the process started
  returnedBefore  \* the verify() calls that had returned when each call began

keyVars == <<keyPc, certPrivate, certPublic, ready, keyFiles, dirs, genCount>>
callVars == <<vpc, upc, ctype, cid, provided, rsize, rbuf, local, awaited,
              credentials, user_key, user_secret, dbUrl, complete, authDb, ops,
              errors>>
fileVars == <<credState, credMap, credLen, credHead>>
storeVars == <<users, inflight, fileVars, orphan, fd>>
histVars == <<atStart, returnedBefore>>
vars == <<keyVars, callVars, storeVars, faults, losses, unhandled, histVars>>

(* ------------------------------------------------------------------ Init *)

\* State right after `new Auth()`: checkRSAKeys has run up to its first
\* await (lstat), both promises are pending, no verify() was called.  The
\* process finds what is on disk and in the store, each on its own: key
\* files and a marker that are absent, whole, or emptied by a write that
\* failed; a credentials.json of any content; user records of ids that
\* earlier processes bootstrapped, one or more for an id, whether or not the
\* file still names them.
Init ==
  /\ keyPc = "lstat"
  /\ certPrivate = NoFile /\ certPublic = NoFile
  /\ ready = FALSE
  /\ \E priv \in {NoFile, EmptyFile, DiskPrivate},
        pub \in {NoFile, EmptyFile, DiskPublic},
        ign \in {NoFile, EmptyFile, "*.*"} :
       keyFiles = [private |-> priv, public |-> pub, gitignore |-> ign]
  /\ \E d \in {{}, {"config"}, {"config", "certs"}} :
       /\ (\E f \in DOMAIN keyFiles : keyFiles[f] # NoFile) => "certs" \in d
       /\ dirs = d
  /\ genCount = 0
  /\ authDb = NoUrl
  /\ complete = 0
  /\ vpc = [c \in Calls |-> "idle"]
  /\ upc = [c \in Calls |-> "none"]
  /\ ctype = [c \in Calls |-> "other"]
  /\ cid = [c \in Calls |-> "auth_core"]
  /\ provided = [c \in Calls |-> NoProvided]
  /\ local = [c \in Calls |-> EmptyLocal]
  /\ awaited = [c \in Calls |-> 0]
  /\ credentials = [c \in Calls |-> EmptyObject]
  /\ user_key = [c \in Calls |-> NoVal]
  /\ user_secret = [c \in Calls |-> NoVal]
  /\ dbUrl = [c \in Calls |-> NoUrl]
  /\ fd = [c \in Calls |-> "closed"]
  /\ inflight = {}
  /\ \E f \in StartFiles :
       /\ Cardinality({i \in Ids : f.head.map[i] # NoVal}) <= MaxPrior
       /\ f.state # "absent" => "certs" \in dirs
       /\ credState = f.state /\ credMap = f.map
       /\ credLen = f.len /\ credHead = f.head
  /\ orphan = NoInode
  /\ rsize = [c \in Calls |-> 0]
  /\ rbuf = [c \in Calls |-> NoText]
  /\ \E stored \in SUBSET StartRecords :
       /\ Cardinality({r.user_id : r \in stored}) <= MaxPrior
       /\ users = stored
  /\ ops = [c \in Calls |-> {}]
  /\ errors = [c \in Calls |-> {}]
  /\ faults = 0
  /\ losses = 0
  /\ unhandled = "none"
  /\ atStart = [keyFiles |-> keyFiles, dirs |-> dirs, credState |-> credState,
                credMap |-> credMap, users |-> users]
  /\ returnedBefore = [c \in Calls |-> {}]

(* ---------------------------------------------------------------- process *)

\* what has gone wrong so far
Troubles == faults + losses

\* the process has not been ended by a rejection that nobody handles
Running == unhandled # "exit"

\* a promise that nobody holds rejects (the promise of checkRSAKeys, dropped
\* at line 35; the promise of insertOne, dropped at line 137): Node prints a
\* warning and goes on, or ends the process with exit code 1, depending on
\* its version and on --unhandled-rejections; one process does the same
\* every time
DropRejection ==
  unhandled' \in (IF unhandled = "none" THEN {"warn", "exit"} ELSE {unhandled})

\* credentials.json as it is
CredFile ==
  [state |-> credState, map |-> credMap, head |-> credHead, len |-> credLen]

\* credentials.json becomes f
SetFile(f) ==
  /\ credState' = f.state /\ credMap' = f.map
  /\ credLen' = f.len /\ credHead' = f.head

\* the file the descriptor of call c names: credentials.json, or the file
\* that was credentials.json when the call opened it
Inode(c) == IF fd[c] = "unlinked" THEN orphan ELSE CredFile

\* call c closes its descriptor; an unlinked file goes with its last
\* descriptor
Release(c) ==
  /\ fd' = [fd EXCEPT ![c] = "closed"]
  /\ orphan' = IF \E d \in Calls \ {c} : fd[d] = "unlinked"
                 THEN orphan ELSE NoInode

(* ------------------------------------------------- KeyManager: checkRSAKeys *)

\* the catch block up to its first await: generate and keep the new pair
Generate ==
  /\ certPrivate' = generateKeys.private
  /\ certPublic' = generateKeys.public
  /\ genCount' = genCount + 1
  /\ keyPc' = "mkdirConfig"

\* await fileExists(auth.private.pem)
Lstat ==
  /\ Running
  /\ keyPc = "lstat"
  /\ IF keyFiles.private # NoFile
       THEN keyPc' = "readPrivate" /\ UNCHANGED <<certPrivate, certPublic, genCount>>
       ELSE Generate
  /\ UNCHANGED <<ready, keyFiles, dirs, callVars, storeVars, faults, losses,
                 unhandled, histVars>>

\* this.certPrivate = await readFile(auth.private.pem)
ReadPrivate ==
  /\ Running
  /\ keyPc = "readPrivate"
  /\ keyFiles.private # NoFile
  /\ certPrivate' = keyFiles.private
  /\ keyPc' = "readPublic"
  /\ UNCHANGED <<certPublic, genCount, ready, keyFiles, dirs, callVars,
                 storeVars, faults, losses, unhandled, histVars>>

\* this.certPublic = await readFile(auth.public.pem), then resolve()
ReadPublic ==
  /\ Running
  /\ keyPc = "readPublic"
  /\ IF keyFiles.public # NoFile
       THEN /\ certPublic' = keyFiles.public
            /\ keyPc' = "done"
            /\ ready' = TRUE
            /\ UNCHANGED <<certPrivate, genCount>>
       ELSE Generate /\ UNCHANGED ready
  /\ UNCHANGED <<keyFiles, dirs, callVars, storeVars, faults, losses,
                 unhandled, histVars>>

\* a read of an existing key file fails (unreadable): the catch block runs
KeyReadFault ==
  /\ Running
  /\ Troubles < MaxFaults
  /\ \/ keyPc = "lstat" /\ keyFiles.private # NoFile
     \/ keyPc = "readPrivate"
     \/ keyPc = "readPublic" /\ keyFiles.public # NoFile
  /\ Generate
  /\ faults' = faults + 1
  /\ UNCHANGED <<ready, keyFiles, dirs, callVars, storeVars, losses,
                 unhandled, histVars>>

\* try { await mkdir(config/) } catch {}
MkdirConfig ==
  /\ Running
  /\ keyPc = "mkdirConfig"
  /\ dirs' = dirs \cup {"config"}
  /\ keyPc' = "mkdirCerts"
  /\ UNCHANGED <<certPrivate, certPublic, ready, keyFiles, genCount, callVars,
                 storeVars, faults, losses, unhandled, histVars>>

\* try { await mkdir(certDir) } catch {}
MkdirCerts ==
  /\ Running
  /\ keyPc = "mkdirCerts"
  /\ dirs' = IF "config" \in dirs THEN dirs \cup {"certs"} ELSE dirs
  /\ keyPc' = "writePublic"
  /\ UNCHANGED <<certPrivate, certPublic, ready, keyFiles, genCount, callVars,
                 storeVars, faults, losses, unhandled, histVars>>

\* a mkdir fails for another reason than "already exists"; the error is
\* swallowed and the directory is not created
MkdirFault ==
  /\ Running
  /\ Troubles < MaxFaults
  /\ \/ keyPc = "mkdirConfig" /\ "config" \notin dirs /\ keyPc' = "mkdirCerts"
     \/ keyPc = "mkdirCerts" /\ "certs" \notin dirs /\ keyPc' = "writePublic"
  /\ faults' = faults + 1
  /\ UNCHANGED <<certPrivate, certPublic, ready, keyFiles, dirs, genCount,
                 callVars, storeVars, losses, unhandled, histVars>>

\* fs.writeFile takes three turns of the event loop: it opens the file with
\* flag 'w', which creates or truncates it; it writes the text; it closes
\* the file, and only then the awaited promise resolves.  Other callbacks,
\* a verify() call of the loader among them, run between the turns.

\* the open of writeFile(file): the file exists and is empty
OpenKeyFile(file, to) ==
  /\ Running
  /\ "certs" \in dirs
  /\ keyFiles' = [keyFiles EXCEPT ![file] = EmptyFile]
  /\ keyPc' = to
  /\ UNCHANGED <<certPrivate, certPublic, ready, dirs, genCount, callVars,
                 storeVars, faults, losses, unhandled, histVars>>

\* the write of writeFile(file, text)
PutKeyFile(file, text, to) ==
  /\ Running
  /\ keyFiles' = [keyFiles EXCEPT ![file] = text]
  /\ keyPc' = to
  /\ UNCHANGED <<certPrivate, certPublic, ready, dirs, genCount, callVars,
                 storeVars, faults, losses, unhandled, histVars>>

\* the close of writeFile: the await continues with the next statement,
\* which after the third writeFile is resolve()
CloseKeyFile(to) ==
  /\ Running
  /\ keyPc' = to
  /\ ready' = (ready \/ to = "done")
  /\ UNCHANGED <<certPrivate, certPublic, keyFiles, dirs, genCount, callVars,
                 storeVars, faults, losses, unhandled, histVars>>

\* await writeFile(auth.public.pem, this.certPublic)
TruncatePublic ==
  /\ keyPc = "writePublic"
  /\ OpenKeyFile("public", "writingPublic")

WritePublic ==
  /\ keyPc = "writingPublic"
  /\ PutKeyFile("public", certPublic, "closingPublic")

ClosePublic ==
  /\ keyPc = "closingPublic"
  /\ CloseKeyFile("writePrivate")

\* await writeFile(auth.private.pem, this.certPrivate); the first variant of
\* the write puts the public key into the private key file
TruncatePrivate ==
  /\ keyPc = "writePrivate"
  /\ OpenKeyFile("private", "writingPrivate")

WritePrivateSwapped ==
  /\ keyPc = "writingPrivate"
  /\ PutKeyFile("private", certPublic, "closingPrivate")
WritePrivate ==
  /\ keyPc = "writingPrivate"
  /\ PutKeyFile("private", certPrivate, "closingPrivate")

ClosePrivate ==
  /\ keyPc = "closingPrivate"
  /\ CloseKeyFile("writeIgnore")

\* await writeFile(.gitignore, '*.*'), then resolve()
TruncateIgnore ==
  /\ keyPc = "writeIgnore"
  /\ OpenKeyFile("gitignore", "writingIgnore")

WriteIgnore ==
  /\ keyPc = "writingIgnore"
  /\ PutKeyFile("gitignore", "*.*", "closingIgnore")

CloseIgnore ==
  /\ keyPc = "closingIgnore"
  /\ CloseKeyFile("done")

\* the positions of checkRSAKeys inside one of its three writeFile calls
KeyWritePcs ==
  {"writePublic", "writingPublic", "closingPublic",
   "writePrivate", "writingPrivate", "closingPrivate",
   "writeIgnore", "writingIgnore", "closingIgnore"}

\* a turn of one of the three writeFile calls fails (the open always does
\* when certDir is missing): the file stays as that turn found it, empty
\* when the open had succeeded; the exception leaves the async function
\* checkRSAKeys, whose promise nobody holds, and resolve() at line 63 is not
\* reached
KeyWriteFault ==
  /\ Running
  /\ keyPc \in KeyWritePcs
  /\ \/ "certs" \notin dirs /\ UNCHANGED faults
     \/ "certs" \in dirs /\ Troubles < MaxFaults /\ faults' = faults + 1
  /\ keyPc' = "failed"
  /\ DropRejection
  /\ UNCHANGED <<certPrivate, certPublic, ready, keyFiles, dirs, genCount,
                 callVars, storeVars, losses, histVars>>

(* ------------------------------------------------ BootstrapCoordinator *)

\* verifyKeys: the node types that receive the key pair
NeedsKeysAll(t) == TRUE
NeedsKeys(t) == t = "api" \/ t = "auth"

\* verifyUser: the guard of credential resolution
NeedsUserAlways(t, prov) == t = "core"
NeedsUser(t, prov) == t = "core" /\ ~prov.userSecret

\* the provided overrides the loader may pass with a node of type t
ProvidedFor(t) ==
  IF t = "core"
    THEN [userSecret : BOOLEAN, mongoUrl : {NoUrl, ProvidedUrl}]
    ELSE {NoProvided}

\* verifyUser line 93: the node that supplies the database target
SuppliesDb(i) == i = "auth_core"

\* resolveDb(url): a promise keeps the value of its first resolve
ResolveDbLast(cur, url) == url
ResolveDb(cur, url) == IF cur = NoUrl THEN url ELSE cur

\* the promise verifyUser awaits at line 96: the value of this.complete read
\* in the same synchronous run that assigned it at line 91
AwaitedBy(c) == awaited[c]

\* checkUser(d) settles: every verifyUser awaiting that promise continues,
\* and with it its verify(); these continuations are microtasks, which run
\* before any further I/O callback
Settle(d, outcome) ==
  /\ upc' = [upc EXCEPT ![d] = outcome]
  /\ vpc' = [c \in Calls |->
               IF vpc[c] = "awaitComplete" /\ AwaitedBy(c) = d
                 THEN (IF outcome = "resolved" THEN "returned" ELSE "rejected")
                 ELSE vpc[c]]

\* the loader calls verify(t, i, config) with config.provided = p; the call
\* runs up to `await this.ready`
Verify(c, t, i, p) ==
  /\ Running
  /\ vpc[c] = "idle"
  /\ c > 1 => vpc[c - 1] # "idle"
  /\ vpc' = [vpc EXCEPT ![c] = "awaitReady"]
  /\ ctype' = [ctype EXCEPT ![c] = t]
  /\ cid' = [cid EXCEPT ![c] = i]
  /\ provided' = [provided EXCEPT ![c] = p]
  /\ returnedBefore' = [returnedBefore EXCEPT
                          ![c] = {a \in Calls : vpc[a] = "returned"}]
  /\ UNCHANGED <<keyVars, upc, rsize, rbuf, local, awaited, credentials,
                 user_key, user_secret, dbUrl, complete, authDb, ops, errors,
                 storeVars, faults, losses, unhandled, atStart>>

\* line 70: verify continues once this.ready has resolved
ReadyIgnored == TRUE
ReadyResolved == ready

\* this.ready has resolved: verifyKeys, then verifyUser up to
\* `await this.complete` with checkUser run up to `await this.authDb`; when
\* verifyUser has nothing to do, verify still yields at
\* `await this.verifyUser(...)` (line 72) before it returns
AfterReady(c) ==
  /\ Running
  /\ vpc[c] = "awaitReady"
  /\ ReadyResolved
  /\ local' = IF NeedsKeys(ctype[c])
                THEN [local EXCEPT ![c].certPublic = certPublic,
                                   ![c].certPrivate = certPrivate]
                ELSE local
  /\ IF NeedsUser(ctype[c], provided[c])
       THEN /\ complete' = c
            /\ upc' = [upc EXCEPT ![c] = "awaitAuthDb"]
            /\ authDb' = IF SuppliesDb(cid[c])
                           THEN ResolveDb(authDb, TargetUrl(provided[c]))
                           ELSE authDb
            /\ awaited' = [awaited EXCEPT ![c] = complete']
            /\ vpc' = [vpc EXCEPT ![c] = "awaitComplete"]
       ELSE /\ vpc' = [vpc EXCEPT ![c] = "awaitVerifyUser"]
            /\ UNCHANGED <<complete, upc, authDb, awaited>>
  /\ UNCHANGED <<keyVars, ctype, cid, provided, rsize, rbuf, credentials, user_key,
                 user_secret, dbUrl, ops, errors, storeVars, faults, losses, unhandled, histVars>>

\* line 72 for a call whose verifyUser did nothing: the await of the already
\* resolved promise continues and verify returns
VerifyUserDone(c) ==
  /\ Running
  /\ vpc[c] = "awaitVerifyUser"
  /\ vpc' = [vpc EXCEPT ![c] = "returned"]
  /\ UNCHANGED <<keyVars, upc, ctype, cid, provided, rsize, rbuf, local, awaited,
                 credentials, user_key, user_secret, dbUrl, complete, authDb,
                 ops, errors, storeVars, faults, losses, unhandled, histVars>>

(* ------------------------------------------------ CredentialStore: checkUser *)

\* let url = await this.authDb; then mongodb.connect(url) is issued
AfterAuthDb(c) ==
  /\ Running
  /\ upc[c] = "awaitAuthDb"
  /\ authDb # NoUrl
  /\ dbUrl' = [dbUrl EXCEPT ![c] = authDb]
  /\ UNCHANGED errors
  /\ ops' = [ops EXCEPT ![c] = @ \cup {"connect"}]
  /\ upc' = [upc EXCEPT ![c] = "connect"]
  /\ UNCHANGED <<keyVars, vpc, ctype, cid, provided, rsize, rbuf, local, awaited,
                 credentials, user_key, user_secret, complete, authDb,
                 storeVars, faults, losses, unhandled, histVars>>

\* the connection is open; readFile(credentials.json) is issued
ConnectOk(c) ==
  /\ Running
  /\ upc[c] = "connect"
  /\ UNCHANGED errors
  /\ ops' = [ops EXCEPT ![c] = @ \cup {"readCredentials"}]
  /\ upc' = [upc EXCEPT ![c] = "readFile"]
  /\ UNCHANGED <<keyVars, vpc, ctype, cid, provided, rsize, rbuf, local, awaited,
                 credentials, user_key, user_secret, dbUrl, complete, authDb,
                 storeVars, faults, losses, unhandled, histVars>>

\* line 112: credentials[id] is truthy: an entry of the parsed value, or a
\* function inherited from the prototype when the id names one
Found(creds, i) == creds.entries[i] # NoVal \/ i \in Inherited

\* lines 113-114: credentials[id].user_key and .user_secret; an inherited
\* function has neither property, the result is undefined
CachedKey(creds, i) ==
  IF creds.entries[i] # NoVal THEN creds.entries[i].user_key ELSE NoVal
CachedSecret(creds, i) ==
  IF creds.entries[i] # NoVal THEN creds.entries[i].user_secret ELSE NoVal

\* lines 111-126, with `creds` the value parsed from the file (or {}) and
\* `failed` the operations that failed on the way: reading a property of
\* null throws a TypeError, which leaves checkUser; a cache hit copies the
\* pair and finishes; a miss draws two tokens and issues deleteOne
AfterRead(c, creds, failed) ==
  /\ credentials' = [credentials EXCEPT ![c] = creds]
  /\ IF creds.kind = "null"
       THEN /\ Settle(c, "rejected")
            /\ errors' = [errors EXCEPT ![c] = @ \cup failed \cup {"TypeError"}]
            /\ UNCHANGED <<user_key, user_secret, local, ops>>
       ELSE /\ errors' = [errors EXCEPT ![c] = @ \cup failed]
            /\ IF Found(creds, cid[c])
                 THEN /\ user_key' = [user_key EXCEPT
                                        ![c] = CachedKey(creds, cid[c])]
                      /\ user_secret' = [user_secret EXCEPT
                                           ![c] = CachedSecret(creds, cid[c])]
                      /\ local' = [local EXCEPT
                                     ![c].userKey = CachedKey(creds, cid[c]),
                                     ![c].userSecret = CachedSecret(creds, cid[c])]
                      /\ Settle(c, "resolved")
                      /\ UNCHANGED ops
                 ELSE /\ user_key' = [user_key EXCEPT ![c] = uid(c, 1)]
                      /\ user_secret' = [user_secret EXCEPT ![c] = uid(c, 2)]
                      /\ ops' = [ops EXCEPT ![c] = @ \cup {"deleteOne"}]
                      /\ upc' = [upc EXCEPT ![c] = "deleteOne"]
                      /\ UNCHANGED <<local, vpc>>
  /\ UNCHANGED <<keyVars, ctype, cid, provided, awaited, dbUrl, complete,
                 authDb, users, inflight, fileVars, losses, unhandled,
                 histVars>>

\* what a turn of readFile(credentials.json) leaves alone
ReadFrame ==
  UNCHANGED <<keyVars, vpc, ctype, cid, provided, local, awaited, credentials,
              user_key, user_secret, dbUrl, complete, authDb, ops, errors,
              users, inflight, fileVars, orphan, losses, unhandled, histVars>>

\* fs.readFile takes its turns of the event loop as well: open, fstat,
\* read, a further read when the first did not reach the size fstat
\* reported (or when that was 0), and close, after which the awaited promise
\* settles.  Other calls' turns fall in between.

\* the open of readFile(credentials.json): it fails when there is no such
\* file, else the call holds a descriptor of the file
OpenCredentials(c) ==
  /\ Running
  /\ upc[c] = "readFile"
  /\ IF credState = "absent"
       THEN /\ rbuf' = [rbuf EXCEPT ![c] = Text("absent", EmptyCredentials)]
            /\ upc' = [upc EXCEPT ![c] = "readClose"]
            /\ UNCHANGED fd
       ELSE /\ fd' = [fd EXCEPT ![c] = "open"]
            /\ upc' = [upc EXCEPT ![c] = "fstat"]
            /\ UNCHANGED rbuf
  /\ UNCHANGED <<rsize, faults>>
  /\ ReadFrame

\* the fstat of readFile: the size of the file at this moment
StatCredentials(c) ==
  /\ Running
  /\ upc[c] = "fstat"
  /\ rsize' = [rsize EXCEPT ![c] = Inode(c).len]
  /\ upc' = [upc EXCEPT ![c] = "read"]
  /\ UNCHANGED <<rbuf, fd, faults>>
  /\ ReadFrame

\* the first read of readFile: as many bytes as fstat reported, all there
\* are when it reported 0, fewer when the file has become shorter.  The
\* read is the last one when it got no byte or as many as fstat reported.
ReadChunk(c) ==
  /\ Running
  /\ upc[c] = "read"
  /\ LET f == Inode(c)
         got == FirstBytes(f, IF rsize[c] = 0 THEN f.len ELSE rsize[c])
         more == got.len > 0 /\ (rsize[c] = 0 \/ got.len < rsize[c])
     IN /\ rbuf' = [rbuf EXCEPT ![c] = got.text]
        /\ rsize' = [rsize EXCEPT ![c] = IF more THEN got.len ELSE 0]
        /\ upc' = [upc EXCEPT ![c] = IF more THEN "readMore" ELSE "readClose"]
  /\ UNCHANGED <<fd, faults>>
  /\ ReadFrame

\* the further read of readFile, from where the first one ended: it gets
\* no byte, or, when the file has become longer, the bytes of another text
\* from that offset on, and what was read is not JSON
ReadMore(c) ==
  /\ Running
  /\ upc[c] = "readMore"
  /\ rbuf' = IF Inode(c).len > rsize[c]
               THEN [rbuf EXCEPT ![c] = NoText] ELSE rbuf
  /\ rsize' = [rsize EXCEPT ![c] = 0]
  /\ upc' = [upc EXCEPT ![c] = "readClose"]
  /\ UNCHANGED <<fd, faults>>
  /\ ReadFrame

\* the close of readFile: the awaited promise settles and JSON.parse
\* returns what it makes of the bytes read, or the catch at line 109 has
\* left credentials = {}
ReadCredentials(c) ==
  /\ Running
  /\ upc[c] = "readClose"
  /\ AfterRead(c, ParseCredentials(rbuf[c].state, rbuf[c].map),
               IF rbuf[c].state = "error" THEN {"readCredentials"} ELSE {})
  /\ Release(c)
  /\ rbuf' = [rbuf EXCEPT ![c] = NoText]
  /\ UNCHANGED <<rsize, faults>>

\* the records deleteOne({user_id: i}) may leave: it removes one matching
\* record, whichever the server finds first
AfterDeleteOne(coll, i) ==
  IF \E r \in coll : r.user_id = i
    THEN {coll \ {r} : r \in {x \in coll : x.user_id = i}}
    ELSE {coll}

\* await deleteOne completes; bcrypt.hash is issued
DeleteOneOk(c) ==
  /\ Running
  /\ upc[c] = "deleteOne"
  /\ users' \in AfterDeleteOne(users, cid[c])
  /\ upc' = [upc EXCEPT ![c] = "hash"]
  /\ UNCHANGED <<keyVars, vpc, ctype, cid, provided, rsize, rbuf, local, awaited,
                 credentials, user_key, user_secret, dbUrl, complete, authDb,
                 ops, errors, inflight, credState, credMap, credLen, credHead, orphan, fd, faults, losses,
                 unhandled, histVars>>

\* bcrypt.hash completes: insertOne is issued and not awaited; the entry is
\* added to the local value and writeFile(credentials.json) is issued.  The
\* class body is strict code, so adding a property to a number, string or
\* boolean throws a TypeError, which leaves checkUser after the insertOne.
HashOk(c) ==
  /\ Running
  /\ upc[c] = "hash"
  /\ inflight' = inflight \cup
       {<<c, NewUser(cid[c], user_key[c], user_secret[c], uid(c, 3))>>}
  /\ IF credentials[c].kind = "primitive"
       THEN /\ Settle(c, "rejected")
            /\ errors' = [errors EXCEPT ![c] = @ \cup {"TypeError"}]
            /\ ops' = [ops EXCEPT ![c] = @ \cup {"insertOne"}]
            /\ UNCHANGED credentials
       ELSE /\ credentials' = [credentials EXCEPT ![c] =
                                 WithEntry(@, cid[c], user_key[c], user_secret[c])]
            /\ ops' = [ops EXCEPT ![c] = @ \cup {"insertOne", "writeCredentials"}]
            /\ upc' = [upc EXCEPT ![c] = "writeFile"]
            /\ UNCHANGED <<errors, vpc>>
  /\ UNCHANGED <<keyVars, ctype, cid, provided, rsize, rbuf, local, awaited, user_key,
                 user_secret, dbUrl, complete, authDb, users, credState,
                 credMap, credLen, credHead, orphan, fd, faults, losses, unhandled, histVars>>

\* what a turn of writeFile(credentials.json) leaves alone
WriteFrame ==
  UNCHANGED <<keyVars, ctype, cid, provided, rsize, rbuf, awaited, credentials,
              user_key, user_secret, dbUrl, complete, authDb, ops, errors,
              users, inflight, faults, losses, unhandled, histVars>>

\* the open of writeFile(credentials.json), flag 'w': the file is created
\* or truncated, and the call holds a descriptor of it; a reader in between
\* gets the empty text
TruncateCredentials(c) ==
  /\ Running
  /\ upc[c] = "writeFile"
  /\ SetFile(Whole(NoText))
  /\ fd' = [fd EXCEPT ![c] = "open"]
  /\ upc' = [upc EXCEPT ![c] = "writing"]
  /\ UNCHANGED <<vpc, local, orphan>>
  /\ WriteFrame

\* the write of writeFile(credentials.json, JSON.stringify(credentials)), at
\* offset 0; it goes to the file the descriptor names, which is no longer
\* credentials.json when that was unlinked after the open
WriteCredentials(c) ==
  /\ Running
  /\ upc[c] = "writing"
  /\ IF fd[c] = "open"
       THEN /\ SetFile(Overwrite(Stringify(credentials[c]), CredFile))
            /\ UNCHANGED orphan
       ELSE /\ orphan' = Overwrite(Stringify(credentials[c]), orphan)
            /\ UNCHANGED fileVars
  /\ upc' = [upc EXCEPT ![c] = "closing"]
  /\ UNCHANGED <<vpc, local, fd>>
  /\ WriteFrame

\* the close of writeFile: `await writeFile` continues, lines 147-148 set
\* the config and checkUser returns
CloseCredentials(c) ==
  /\ Running
  /\ upc[c] = "closing"
  /\ Release(c)
  /\ local' = [local EXCEPT ![c].userKey = user_key[c],
                            ![c].userSecret = user_secret[c]]
  /\ Settle(c, "resolved")
  /\ UNCHANGED fileVars
  /\ WriteFrame

\* the server applies an insertOne that was issued earlier, whether or not
\* the process that sent it still runs
InsertApply(r) ==
  /\ r \in inflight
  /\ users' = users \cup {r[2]}
  /\ inflight' = inflight \ {r}
  /\ UNCHANGED <<keyVars, callVars, credState, credMap, credLen, credHead, orphan, fd, faults,
                 losses, unhandled, histVars>>

(* ---------------------------------------------------------------- faults *)

\* the operation a checkUser at position pc is waiting for
FailedOp(pc) ==
  IF pc \in {"writeFile", "writing", "closing"} THEN "writeCredentials" ELSE pc

\* mongodb.connect, deleteOne, bcrypt.hash or a turn of
\* writeFile(credentials.json) fails: the awaited promise rejects and the
\* exception leaves checkUser; the file stays as that turn found it, empty
\* when the open had succeeded and no text was written
CheckUserFault(c) ==
  /\ Running
  /\ Troubles < MaxFaults
  /\ upc[c] \in {"connect", "deleteOne", "hash", "writeFile", "writing", "closing"}
  /\ Settle(c, "rejected")
  /\ errors' = [errors EXCEPT ![c] = @ \cup {FailedOp(upc[c])}]
  /\ faults' = faults + 1
  /\ Release(c)
  /\ UNCHANGED <<keyVars, ctype, cid, provided, rsize, rbuf, local, awaited,
                 credentials, user_key, user_secret, dbUrl, complete, authDb,
                 ops, users, inflight, fileVars, losses, unhandled, histVars>>

\* a turn of readFile(credentials.json) fails, whatever the file holds:
\* the promise rejects and the catch at line 109 leaves credentials = {}.
\* After a failing open, fstat or read the descriptor is closed first; a
\* failing close is the last turn, and the text that was read is dropped
CredReadFault(c) ==
  /\ Running
  /\ Troubles < MaxFaults
  /\ faults' = faults + 1
  /\ IF upc[c] = "readClose"
       THEN /\ fd[c] # "closed"
            /\ AfterRead(c, ParseCredentials("error", EmptyCredentials),
                         {"readCredentials"})
            /\ Release(c)
            /\ rbuf' = [rbuf EXCEPT ![c] = NoText]
            /\ UNCHANGED rsize
       ELSE /\ upc[c] \in {"readFile", "fstat", "read", "readMore"}
            /\ rbuf' = [rbuf EXCEPT ![c] = Text("error", EmptyCredentials)]
            /\ rsize' = [rsize EXCEPT ![c] = 0]
            /\ upc' = [upc EXCEPT ![c] = "readClose"]
            /\ UNCHANGED fd
            /\ ReadFrame

\* an insertOne that was issued fails: its promise is held by nobody, the
\* rejection is not handled
InsertFault(r) ==
  /\ Running
  /\ Troubles < MaxFaults
  /\ r \in inflight
  /\ inflight' = inflight \ {r}
  /\ errors' = [errors EXCEPT ![r[1]] = @ \cup {"insertOne"}]
  /\ faults' = faults + 1
  /\ DropRejection
  /\ UNCHANGED <<keyVars, vpc, upc, ctype, cid, provided, rsize, rbuf, local, awaited,
                 credentials, user_key, user_secret, dbUrl, complete, authDb,
                 ops, users, credState, credMap, credLen, credHead, orphan, fd, losses, histVars>>

\* the operator loses credentials.json (the case lines 123-125 provide
\* for): the path is unlinked, and a descriptor opened before names a file
\* that no path leads to, which lives as long as the descriptor
LoseCredentials ==
  /\ losses < MaxLoss /\ Troubles < MaxFaults
  /\ credState # "absent"
  /\ \A c \in Calls : fd[c] # "unlinked"
  /\ orphan' = IF \E c \in Calls : fd[c] = "open" THEN CredFile ELSE NoInode
  /\ SetFile(NoInode)
  /\ fd' = [c \in Calls |-> IF fd[c] = "open" THEN "unlinked" ELSE fd[c]]
  /\ losses' = losses + 1
  /\ UNCHANGED <<keyVars, callVars, users, inflight, faults, unhandled, histVars>>

(* --------------------------------------------------------- specifications *)

\* checkRSAKeys finds its key files and loads them
LoadStep == Lstat \/ ReadPrivate \/ ReadPublic

\* checkRSAKeys generates the pair and writes the three files
SaveStep ==
  \/ MkdirConfig \/ MkdirCerts
  \/ TruncatePublic \/ WritePublic \/ ClosePublic
  \/ TruncatePrivate \/ WritePrivate \/ ClosePrivate
  \/ TruncateIgnore \/ WriteIgnore \/ CloseIgnore

KeyStep == LoadStep \/ SaveStep

KeyFault == KeyReadFault \/ MkdirFault \/ KeyWriteFault

\* the steps of a call that resolves credentials
UserStep(c) ==
  \/ AfterReady(c)
  \/ AfterAuthDb(c) \/ ConnectOk(c)
  \/ OpenCredentials(c) \/ StatCredentials(c) \/ ReadChunk(c) \/ ReadMore(c)
  \/ ReadCredentials(c)
  \/ DeleteOneOk(c) \/ HashOk(c)
  \/ TruncateCredentials(c) \/ WriteCredentials(c) \/ CloseCredentials(c)

CallStep(c) == UserStep(c) \/ VerifyUserDone(c)

\* the loader calls verify for a node of any type
Start == \E c \in 1..MaxCalls, t \in Types, i \in Ids \ Inherited :
           \E p \in ProvidedFor(t) : Verify(c, t, i, p)

\* the loader calls verify for a core node whose id names an inherited
\* property
StartInherited == \E c \in 1..MaxCalls, i \in Inherited :
                    Verify(c, "core", i, NoProvided)

\* the loader calls verify for a core node, with or without overrides; a
\* provided mongoUrl is read for 'auth_core' only and is passed with it only
StartUser == \E c \in 1..MaxCalls, i \in Ids \ Inherited :
               \E p \in ProvidedFor("core") :
                 /\ i # "auth_core" => p.mongoUrl = NoUrl
                 /\ Verify(c, "core", i, p)

\* the loader calls verify for a core node without overrides
StartCore == \E c \in 1..MaxCoreCalls, i \in Ids \ Inherited :
               Verify(c, "core", i, NoProvided)

\* the loader calls verify for a node that takes no credentials
StartPlain == \E c \in 1..MaxCalls, t \in Types \ {"core"}, i \in Ids \ Inherited :
                Verify(c, t, i, NoProvided)

StoreFault ==
  \/ \E c \in Calls : CheckUserFault(c) \/ CredReadFault(c)
  \/ \E r \in inflight : InsertFault(r)
  \/ LoseCredentials

Progress ==
  \/ KeyStep
  \/ \E c \in Calls : CallStep(c)
  \/ \E r \in inflight : InsertApply(r)

Fault == KeyFault \/ StoreFault

Next == Start \/ StartInherited \/ Progress \/ Fault

\* any run of the process, I/O failures and a lost credentials file included
Spec == Init /\ [][Next]_vars

\* a process that finds its key files and neither credentials.json nor
\* user records
InitCore ==
  /\ Init
  /\ keyFiles.private = DiskPrivate /\ keyFiles.public = DiskPublic
  /\ keyFiles.gitignore = NoFile
  /\ credState = "absent" /\ users = {}

NextCore ==
  \/ StartCore
  \/ LoadStep
  \/ \E c \in Calls : UserStep(c)
  \/ \E r \in inflight : InsertApply(r)

\* runs of core nodes only, each resolving its credentials, with all I/O
\* succeeding
CoreSpec == InitCore /\ [][NextCore]_vars

\* a process that finds neither credentials.json nor user records, whatever
\* key files it finds, and loads nodes that take no credentials: the runs
\* that exercise every way of loading, generating and saving the keys
InitKeys == Init /\ credState = "absent" /\ users = {}

KeyProgress ==
  \/ KeyStep
  \/ \E c \in Calls : AfterReady(c) \/ VerifyUserDone(c)

NextKeys == StartPlain \/ KeyProgress \/ KeyFault

KeySpec == InitKeys /\ [][NextKeys]_vars

\* the same with every pending operation eventually completing or failing
KeyFairSpec == InitKeys /\ [][NextKeys]_vars /\ WF_vars(KeyProgress)

\* a process that finds the key files of an earlier process, whatever
\* credentials.json and user records it finds: checkRSAKeys loads the keys
\* and writes nothing
InitLoaded ==
  /\ Init
  /\ keyFiles.private = DiskPrivate /\ keyFiles.public = DiskPublic
  /\ keyFiles.gitignore = "*.*"

StoreProgress ==
  \/ LoadStep
  \/ \E c \in Calls : CallStep(c)
  \/ \E r \in inflight : InsertApply(r)

NextStoreOk == StartUser \/ StartInherited \/ StoreProgress

NextStore == StartUser \/ StartInherited \/ StoreProgress \/ StoreFault

\* the records credentials.json names: one for each id its text holds an
\* entry of
NamedRecords == {PriorUser(i) : i \in {n \in Named : credHead.map[n] # NoVal}}

\* a selection of the starts of such a process, taken for the runs of the
\* credential store: any credentials.json with exactly the records it
\* names; or a file naming auth_core with any records of auth_core, several
\* and records with other keys included, and with or without the record of
\* jobs_core; or no file with records a lost file named.  Starts that
\* combine a damaged file with further records are in Init and not here
InitStore ==
  /\ InitLoaded
  /\ \/ users = NamedRecords
     \/ /\ credState = "ok"
        /\ {i \in Ids : credMap[i] # NoVal} = {"auth_core"}
        /\ {r \in users : r.user_id = "jobs_core"} \subseteq {PriorUser("jobs_core")}
     \/ /\ credState = "absent"
        /\ users \subseteq {PriorUser(i) : i \in Named}

\* the runs of core nodes that exercise the credential store, with its I/O
\* failures
StoreSpec == InitStore /\ [][NextStore]_vars

\* a first run with loaded keys: neither credentials.json nor user records
InitFirst == InitLoaded /\ credState = "absent" /\ users = {}

NextTypes == Start \/ StoreProgress \/ StoreFault

\* the runs of nodes of every type next to each other, from a first start
TypeSpec == InitFirst /\ [][NextTypes]_vars

\* the same with all file and database operations succeeding and every
\* pending operation eventually completing
StoreFairSpec == InitStore /\ [][NextStoreOk]_vars /\ WF_vars(StoreProgress)

\* a process started with no key files, no cert directory and no
\* credentials.json, with at most one user record for an id, all file and
\* database operations succeeding
InitFresh ==
  /\ Init
  /\ \A f \in DOMAIN keyFiles : keyFiles[f] = NoFile
  /\ "certs" \notin dirs
  /\ \A i \in Ids : Cardinality({r \in users : r.user_id = i}) <= 1

FreshProgress ==
  \/ Lstat \/ SaveStep
  \/ \E c \in Calls : CallStep(c)
  \/ \E r \in inflight : InsertApply(r)

\* the loader calls verify for an auth or core node without a provided
\* userSecret
StartFresh == \E c \in 1..MaxCalls, t \in {"auth", "core"}, i \in Ids \ Inherited :
                \E p \in ProvidedFor(t) :
                  ~p.userSecret /\ Verify(c, t, i, p)

NextFresh == StartFresh \/ FreshProgress

FreshFairSpec == InitFresh /\ [][NextFresh]_vars /\ WF_vars(FreshProgress)

(* ---------------------------------------------------------------- claims *)

\* call c has been issued as verify(t, i, ...)
Called(c, t, i) == vpc[c] # "idle" /\ ctype[c] = t /\ cid[c] = i

\* call c resolves credentials: a core node without a provided userSecret
Resolves(c) == vpc[c] # "idle" /\ ctype[c] = "core" /\ ~provided[c].userSecret

\* the process started with no cert directory and no credentials.json
Fresh ==
  /\ atStart.keyFiles.private = NoFile /\ atStart.keyFiles.public = NoFile
  /\ atStart.keyFiles.gitignore = NoFile
  /\ "certs" \notin atStart.dirs
  /\ atStart.credState = "absent"

\* call c has been issued and has neither returned nor failed
Pending(c) == vpc[c] \in {"awaitReady", "awaitVerifyUser", "awaitComplete"}

RecordsOf(i) == {r \in users : r.user_id = i}

C1_Returned(c) ==
  /\ vpc[c] = "returned"
  /\ local[c].userKey # NoVal /\ local[c].userSecret # NoVal
  /\ credState = "ok" /\ credMap["jobs_core"] # NoVal

C1_Stored == \E r \in RecordsOf("jobs_core") : r.scope = "write_root"

\* the scenario as the claim states it: verify('auth', 'auth_core') returned
\* before verify('core', 'jobs_core') with a provided mongoUrl began
C1_Scenario(c) ==
  /\ Fresh
  /\ Called(c, "core", "jobs_core") /\ Resolves(c)
  /\ provided[c].mongoUrl = ProvidedUrl
  /\ \E a \in returnedBefore[c] : Called(a, "auth", "auth_core")

\* C1 as stated: in a fresh environment, after verify('auth', 'auth_core')
\* has returned, verify('core', 'jobs_core') with a provided mongoUrl
\* eventually returns with its credentials set, cached and stored.
C1_Original ==
  \A c \in Calls :
    (C1_Scenario(c) /\ Pending(c)) ~>
      (C1_Returned(c) /\ C1_Stored /\ Cardinality(RecordsOf("jobs_core")) = 1)

\* call c returns in this step
Returns(c) == vpc[c] # "returned" /\ vpc'[c] = "returned"

\* after the step, config.local of call c holds the pair that
\* credentials.json holds under the call's id
HoldsCachedPair(c) ==
  /\ credState' = "ok"
  /\ credMap'[cid[c]] # NoVal
  /\ local'[c].userKey = credMap'[cid[c]].user_key
  /\ local'[c].userSecret = credMap'[cid[c]].user_secret

\* C2 as stated: whenever a verify call of a core node without a provided userSecret
\* returns, its own checkUser has resolved and its config.local holds the
\* pair that credentials.json holds under its id at that moment, whatever
\* other call has overwritten this.complete.
C2_OwnCredentials ==
  [][\A c \in Calls :
       (Resolves(c) /\ Returns(c)) => (upc'[c] = "resolved" /\ HoldsCachedPair(c))]_vars

\* the operations of the credential creation path
CreationOps == {"deleteOne", "insertOne", "writeCredentials"}

\* call d began after call c had returned, for the same core node id, both
\* without a provided userSecret, and d has returned as well; every other
\* call is for another id
C3_TwiceInSequence(c, d) ==
  /\ Resolves(c) /\ Resolves(d) /\ cid[c] = cid[d]
  /\ c \in returnedBefore[d]
  /\ vpc[d] = "returned"
  /\ \A e \in Calls \ {c, d} : vpc[e] # "idle" => cid[e] # cid[c]

\* C3 as stated: of two verify calls in sequence for the same core node id
\* the second leaves the same userKey and userSecret as the first and issues
\* no deleteOne, no insertOne and no write of credentials.json.
C3_Idempotent ==
  \A c, d \in Calls :
    C3_TwiceInSequence(c, d) =>
      /\ local[d].userKey = local[c].userKey
      /\ local[d].userSecret = local[c].userSecret
      /\ ops[d] \cap CreationOps = {}

\* the calls that resolve credentials for id i ran one after the other
Sequential(i) ==
  \A c, d \in Calls :
    (c < d /\ Resolves(c) /\ Resolves(d) /\ cid[c] = i /\ cid[d] = i)
      => c \in returnedBefore[d]

\* C4 as stated, for a process that starts without credentials.json and
\* with an empty users collection, for
\* ids that are bootstrapped in sequence only (as when credentials.json is
\* deleted between two runs) and while no I/O operation has failed: the
\* shared store never holds more than one record with user_id = X.
C4_NoDuplicates ==
  \A i \in Ids :
    (atStart.credState = "absent" /\ atStart.users = {} /\ Sequential(i)
       /\ faults = 0)
      => Cardinality(RecordsOf(i)) <= 1

\* the store holds the record that matches the cache entry of id i
StoreMatchesCache(i) ==
  \E r \in RecordsOf(i) :
    /\ r.user_key = credMap[i].user_key
    /\ r.user_secret = BcryptHash(credMap[i].user_secret)

\* C5 as stated: whenever verify has returned for a core node id and
\* credentials.json holds an entry for the id, the shared store holds a
\* record for the id with the cached user_key and the hash of the cached
\* user_secret.
C5_CacheStoreAgree ==
  \A c \in Calls :
    (Resolves(c) /\ vpc[c] = "returned" /\ credState = "ok"
       /\ credMap[cid[c]] # NoVal)
      => StoreMatchesCache(cid[c])

StoreOps == {"connect", "deleteOne", "insertOne"}

\* credentials.json holds the pair call c created and the store holds no
\* matching record
CachedWithoutRecord(c) ==
  /\ credState = "ok"
  /\ credMap[cid[c]] # NoVal
  /\ credMap[cid[c]].user_key = uid(c, 1)
  /\ ~StoreMatchesCache(cid[c])

\* C6 as stated: when the connection, the deleteOne or the insertOne of a
\* credential creation has failed, the verify call has not returned
\* normally and credentials.json holds no entry of that call without a
\* matching store record.
C6_StoreFailureFatal ==
  \A c \in Calls :
    (errors[c] \cap StoreOps # {}) =>
      (vpc[c] # "returned" /\ ~CachedWithoutRecord(c))

\* C7 as stated: once a write of the key files or of the .gitignore marker
\* has failed, every verify call that waits for the keys fails.
C7_KeyFailureRejects ==
  \A c \in Calls :
    (keyPc = "failed" /\ vpc[c] = "awaitReady") ~> (vpc[c] = "rejected")

\* this.certPrivate and this.certPublic are both assigned: with the texts
\* of the two key files found at start, or with the two halves of the one
\* generated pair
KeyPairInMemory ==
  /\ certPrivate # NoFile /\ certPublic # NoFile
  /\ \/ /\ genCount = 0
        /\ certPrivate = atStart.keyFiles.private
        /\ certPublic = atStart.keyFiles.public
     \/ /\ genCount = 1
        /\ certPrivate = generateKeys.private
        /\ certPublic = generateKeys.public

\* call c is past verifyKeys for a node that receives the keys
HasKeys(c) == vpc[c] \notin {"idle", "awaitReady"} /\ NeedsKeys(ctype[c])

\* C8: the key pair is generated at most once; every api or auth node past
\* verifyKeys holds the in-memory pair, which is complete, hence the same
\* pair as every other such node.
C8_KeyReuse ==
  /\ genCount <= 1
  /\ \A c \in Calls :
       HasKeys(c) =>
         /\ KeyPairInMemory
         /\ local[c].certPublic = certPublic
         /\ local[c].certPrivate = certPrivate
  /\ \A c, d \in Calls :
       (HasKeys(c) /\ HasKeys(d)) =>
         /\ local[c].certPublic = local[d].certPublic
         /\ local[c].certPrivate = local[d].certPrivate

\* C8 witness: an api node and an auth node both returned with the pair
\* that was generated in this process
C8_Witness ==
  \E c, d \in Calls :
    /\ c # d /\ ctype[c] = "api" /\ ctype[d] = "auth"
    /\ vpc[c] = "returned" /\ vpc[d] = "returned"
    /\ genCount = 1
    /\ local[c].certPublic = generateKeys.public
    /\ local[d].certPrivate = generateKeys.private

\* call c is for a core node whose config.provided.userSecret is set
Override(c) == vpc[c] # "idle" /\ ctype[c] = "core" /\ provided[c].userSecret

\* C9: a verify call for a core node with a provided userSecret never runs
\* checkUser and issues no store or credentials.json operation, its
\* config.local.userKey and userSecret stay as they were, and its steps
\* leave the store, the pending inserts and credentials.json unchanged.
C9_OverrideBypass ==
  /\ [](\A c \in Calls :
          Override(c) =>
            /\ upc[c] = "none" /\ ops[c] = {}
            /\ local[c].userKey = NoVal /\ local[c].userSecret = NoVal)
  /\ [][\A c \in Calls :
          (Override(c) /\ vpc'[c] # vpc[c]) =>
            UNCHANGED storeVars]_vars

\* C9 witness: such a call returned while another node's record is stored
C9_Witness ==
  \E c, d \in Calls :
    /\ Override(c) /\ vpc[c] = "returned"
    /\ Resolves(d) /\ vpc[d] = "returned"
    /\ \E r \in users : r.user_key = uid(d, 1)
    /\ credState = "ok"

\* credentials.json held an entry for the id of call c when the process
\* started and holds that entry now
HoldsEntry(c) ==
  /\ atStart.credState = "ok" /\ atStart.credMap[cid[c]] # NoVal
  /\ credState = "ok" /\ credMap[cid[c]] = atStart.credMap[cid[c]]

\* call c completes its read of credentials.json in this step, no file
\* operation having failed, and credentials.json holds the entry for its id
\* that it held before the call
ReadsEntry(c) ==
  /\ upc[c] = "readClose" /\ upc'[c] # "readClose"
  /\ errors'[c] = errors[c]
  /\ HoldsEntry(c)

\* C10 as stated: when checkUser reads a credentials.json that holds an
\* entry for its id, it finishes with exactly the cached pair, having issued
\* no deleteOne, no insertOne and no write of credentials.json.
C10_CacheFirst ==
  [][\A c \in Calls :
       ReadsEntry(c) =>
         /\ upc'[c] = "resolved"
         /\ local'[c].userKey = credMap[cid[c]].user_key
         /\ local'[c].userSecret = credMap[cid[c]].user_secret
         /\ ops'[c] \cap CreationOps = {}
         /\ UNCHANGED <<users, inflight, fileVars>>]_vars

\* call c finished checkUser on the cached entry: it resolved without any of
\* the creation operations
CacheHit(c) == upc[c] = "resolved" /\ ops[c] \cap CreationOps = {}

\* C11: a call resolved from a credentials.json entry obtained the pair without
\* waiting for the database target and without opening a database connection.
C11_HitWithoutStore ==
  \A c \in Calls :
    CacheHit(c) => "connect" \notin ops[c] /\ dbUrl[c] = NoUrl

\* every user record the program has handed to the shared store, stored or
\* still in flight
IssuedRecords == users \cup {r[2] : r \in inflight}

\* plaintext secrets held outside the store: credentials.json entries, the
\* in-memory credentials of a call, and config.local.userSecret
PlainSecrets ==
  {credMap[i].user_secret : i \in {j \in Ids : credMap[j] # NoVal}}
    \cup {user_secret[c] : c \in Calls} \cup {local[c].userSecret : c \in Calls}

\* the tokens of the credentials a record may belong to: those a call of this
\* process draws and those an earlier process drew
Drawn ==
  {[key |-> uid(c, 1), secret |-> uid(c, 2)] : c \in Calls}
    \cup {[key |-> PriorUid(i, 1), secret |-> PriorUid(i, 2)] : i \in Ids}
    \cup {[key |-> EarlierUid(g, i, 1), secret |-> EarlierUid(g, i, 2)] :
            g \in 0..(MaxRecords - 1), i \in Ids}

\* C12: every record of the users collection (and every record on its way to
\* it) carries the hash of the secret generated together with its user_key,
\* and never a plaintext secret written to credentials.json or config.local.
C12_NoPlaintextInStore ==
  \A r \in IssuedRecords :
    /\ \E d \in Drawn :
         /\ r.user_key = d.key
         /\ r.user_secret = <<0>> \o d.secret
         /\ r.user_secret # d.secret
    /\ r.user_secret \notin PlainSecrets

\* C12 witness: a stored record next to the plaintext secret of the same
\* credential in credentials.json and in the creating call's config.local
C12_Witness ==
  \E r \in users, c \in Calls :
    /\ credState = "ok" /\ credMap[r.user_id] # NoVal
    /\ credMap[r.user_id].user_key = r.user_key
    /\ local[c].userKey = r.user_key
    /\ local[c].userSecret = credMap[r.user_id].user_secret
    /\ r.user_key = uid(c, 1)
    /\ r.user_secret = BcryptHash(local[c].userSecret)

\* the process started without credentials.json, the calls made so far are
\* credential-resolving calls for pairwise distinct ids, none of them the
\* name of an inherited property, and every one of them has returned
C13_OncePerId ==
  /\ atStart.credState = "absent"
  /\ \E c \in Calls : vpc[c] # "idle"
  /\ \A c \in Calls :
       vpc[c] # "idle" =>
         Resolves(c) /\ vpc[c] = "returned" /\ cid[c] \notin Inherited
  /\ \A c, d \in Calls :
       (vpc[c] # "idle" /\ vpc[d] # "idle" /\ c # d) => cid[c] # cid[d]

\* C13: when verify was called at most once per core node id and every call
\* has returned, credentials.json holds an entry for each of those ids, equal
\* to the pair placed in that call's config.local.
C13_NoLostUpdate ==
  C13_OncePerId =>
    \A c \in Calls :
      vpc[c] # "idle" =>
        /\ credState = "ok" /\ credMap[cid[c]] # NoVal
        /\ credMap[cid[c]].user_key = local[c].userKey
        /\ credMap[cid[c]].user_secret = local[c].userSecret

\* call a has run verifyUser as a credential-resolving call for 'auth_core':
\* the only kind of call that reaches this.resolveDb
SuppliedTarget(a) ==
  /\ Called(a, "core", "auth_core") /\ Resolves(a)
  /\ vpc[a] \in {"awaitComplete", "returned", "rejected"}

\* call a supplies the target in this step
Supplies(a) ==
  /\ vpc[a] = "awaitReady" /\ vpc'[a] = "awaitComplete"
  /\ cid[a] = "auth_core"

\* call c has passed `await this.authDb` and called mongodb.connect
Connected(c) == "connect" \in ops[c]

\* ordering and single value, state part: a call that has opened a
\* database connection did so after some credential-resolving auth_core call
\* supplied the target, and every such call connected with the one target
\* held by the shared handle, the target of one of the supplying calls.
OneTarget ==
  \A c \in Calls :
    Connected(c) =>
      /\ \E a \in Calls : SuppliedTarget(a) /\ dbUrl[c] = TargetUrl(provided[a])
      /\ dbUrl[c] = authDb /\ authDb # NoUrl
      /\ \A d \in Calls : Connected(d) => dbUrl[d] = dbUrl[c]

\* first supplier, step part: the handle leaves its pending state only
\* in a step where an auth_core call supplies the target, it then holds
\* provided.mongoUrl (else local.mongoUrl) of that first call, and no later
\* step, a later auth_core call included, changes it.
FirstSupplierWins ==
  /\ (authDb = NoUrl /\ authDb' # NoUrl) =>
        \E a \in Calls : Supplies(a) /\ authDb' = TargetUrl(provided[a])
  /\ authDb # NoUrl => authDb' = authDb
  /\ \A c \in Calls : dbUrl[c] # NoUrl => dbUrl'[c] = dbUrl[c]

\* C14: no checkUser call connects before a credential-resolving auth_core
\* call has supplied the target; all calls connect with the same target, the
\* provided.mongoUrl (else local.mongoUrl) of the first supplying call; later
\* auth_core calls do not change it.
C14_TargetOrdering == []OneTarget /\ [][FirstSupplierWins]_vars

\* C14 witness: two auth_core calls with different targets, both connected
\* with the target of the one that supplied first
C14_Witness ==
  \E a, b \in Calls :
    /\ SuppliedTarget(a) /\ SuppliedTarget(b)
    /\ TargetUrl(provided[a]) # TargetUrl(provided[b])
    /\ Connected(a) /\ Connected(b)
    /\ dbUrl[a] = TargetUrl(provided[a]) /\ dbUrl[b] = TargetUrl(provided[a])

\* verify has been called for the node with id 'auth_core' and type core
AuthCoreCalled == \E a \in Calls : Called(a, "core", "auth_core")

\* C15 as stated: with all operations succeeding, once verify has been called
\* for the core node 'auth_core', every pending verify call of a core node,
\* whatever the provided overrides, eventually returns.
C15_Original ==
  \A c \in Calls :
    (Pending(c) /\ ctype[c] = "core" /\ AuthCoreCalled) ~> (vpc[c] = "returned")

\* this step belongs to the credential creation of call x: checkUser of x
\* moves, and x is on (or enters) the creation path
CreationStep(x) ==
  /\ upc'[x] # upc[x]
  /\ "deleteOne" \in ops'[x]

\* the credential creation of call x is over, completed or failed
CreationOver(x) ==
  upc[x] \in {"resolved", "rejected"} /\ "deleteOne" \in ops[x]

\* call y bootstrapped another id before call x was issued, credentials.json
\* held y's pair when y returned, and nothing but call x has touched the file
\* since: it was not lost and no third call was made
BootstrappedBefore(y, x) ==
  /\ y \in returnedBefore[x] /\ Resolves(y) /\ cid[y] # cid[x]
  /\ local[y].userKey # NoVal
  /\ credentials[y].kind = "object"
  /\ losses = 0
  /\ \A e \in Calls \ {x, y} : vpc[e] = "idle"

\* state part: after the creation for x is over, the entry of y is as y left
\* it
PriorEntryKept ==
  \A x, y \in Calls :
    (BootstrappedBefore(y, x) /\ CreationOver(x)) =>
      /\ credState = "ok" /\ credMap[cid[y]] # NoVal
      /\ credMap[cid[y]].user_key = local[y].userKey
      /\ credMap[cid[y]].user_secret = local[y].userSecret

\* step part: no step of the creation for x changes the store records of
\* another id
OtherRecordsKept ==
  \A x \in Calls : \A i \in Ids \ {cid[x]} :
    CreationStep(x) => {r \in users' : r.user_id = i} = RecordsOf(i)

\* C16: a credential creation for node id X, completed or failed at any
\* step, leaves the credentials.json entry and the shared-store records of
\* every other id that was bootstrapped before it unchanged.
C16_PriorEntriesKept == []PriorEntryKept /\ [][OtherRecordsKept]_vars

\* both key files were on disk when the process started
KeysAtStart ==
  atStart.keyFiles.private # NoFile /\ atStart.keyFiles.public # NoFile

\* state part: once ready has resolved, both key files exist and equal the
\* keys in memory; keys that were loaded left the files as found, keys that
\* were generated are on disk together with the .gitignore marker
KeysDurable ==
  ready =>
    /\ certPrivate # NoFile /\ certPublic # NoFile
    /\ keyFiles.private = certPrivate /\ keyFiles.public = certPublic
    /\ genCount <= 1
    /\ ~KeysAtStart => genCount = 1
    /\ genCount = 0 =>
         /\ KeysAtStart /\ keyFiles = atStart.keyFiles
         /\ certPrivate = atStart.keyFiles.private
         /\ certPublic = atStart.keyFiles.public
    /\ genCount = 1 =>
         /\ certPrivate = generateKeys.private
         /\ certPublic = generateKeys.public
         /\ keyFiles.gitignore = "*.*"

\* step part: ready resolves once and the keys do not change afterwards; keys
\* are generated only when a key file is missing or a read of it failed; no
\* key file is written unless keys were generated
ResolvesOnce ==
  /\ ready => (ready' /\ UNCHANGED <<certPrivate, certPublic, keyFiles>>)
  /\ genCount' # genCount =>
       \/ keyFiles.private = NoFile \/ keyFiles.public = NoFile
       \/ faults' = faults + 1
  /\ keyFiles' # keyFiles => genCount = 1 /\ ~ready

\* C17: the ready signal resolves at most once; whenever it has resolved both
\* key files exist on disk and equal certPrivate and certPublic; files present
\* and readable at start are loaded unchanged with no file write; if either
\* was missing or unreadable both keys are regenerated and both files and the
\* .gitignore marker are written before ready resolves.
C17_ReadyMeansDurable == []KeysDurable /\ [][ResolvesOnce]_vars

\* C17 witness: ready resolved although both files were present at start,
\* because one read failed and the pair was regenerated and written
C17_Witness ==
  /\ ready /\ KeysAtStart /\ genCount = 1
  /\ keyFiles.private = generateKeys.private
  /\ keyFiles.public = generateKeys.public
  /\ keyFiles.gitignore = "*.*"
  /\ \E c \in Calls : HasKeys(c) /\ local[c].certPrivate = keyFiles.private

\* call c has run verifyKeys and verifyUser's test (it is past `await ready`)
PastReady(c) ==
  vpc[c] \in {"awaitVerifyUser", "awaitComplete", "returned", "rejected"}

\* state part: what a call of each type has and has not done
TypeSelectsEffects ==
  \A c \in Calls :
    /\ ctype[c] \in {"api", "auth"} =>
         /\ local[c].userKey = NoVal /\ local[c].userSecret = NoVal
         /\ upc[c] = "none" /\ ops[c] = {} /\ dbUrl[c] = NoUrl
         /\ PastReady(c) =>
              /\ vpc[c] \in {"awaitVerifyUser", "returned"}
              /\ local[c].certPublic = certPublic
              /\ local[c].certPrivate = certPrivate
    /\ ctype[c] = "core" =>
         local[c].certPublic = NoFile /\ local[c].certPrivate = NoFile
    /\ (vpc[c] # "idle" /\ ctype[c] = "other") =>
         /\ local[c] = EmptyLocal
         /\ upc[c] = "none" /\ ops[c] = {} /\ dbUrl[c] = NoUrl
         /\ vpc[c] \in {"awaitReady", "awaitVerifyUser", "returned"}
    /\ PastReady(c) => ready

\* step part: the steps of a call of a type other than core, past
\* `await ready` and on to its return, leave the credential store,
\* credentials.json, the database target and the other calls' configs
\* untouched
NonCoreStepFrame ==
  \A c \in Calls :
    (vpc[c] \in {"awaitReady", "awaitVerifyUser"} /\ vpc'[c] # vpc[c]
       /\ ctype[c] # "core") =>
      /\ vpc[c] = "awaitReady" => vpc'[c] = "awaitVerifyUser"
      /\ vpc[c] = "awaitVerifyUser" => (vpc'[c] = "returned" /\ local' = local)
      /\ UNCHANGED <<storeVars, authDb, complete>>
      /\ \A d \in Calls \ {c} : local'[d] = local[d]

\* C18: a verify call of type api or auth sets only config.local.certPublic
\* and certPrivate and accesses neither the credential store nor
\* credentials.json; a call of type core never sets certPublic/certPrivate; a
\* call of any other type returns after key readiness and leaves its config
\* and all stores unchanged.
C18_EffectsByType == []TypeSelectsEffects /\ [][NonCoreStepFrame]_vars

\* C18 witness: an api call holding only the keys next to a core call that
\* holds only credentials
C18_Witness ==
  \E c, d \in Calls :
    /\ Called(c, "api", "jobs_core") /\ vpc[c] = "returned"
    /\ local[c].certPrivate = certPrivate /\ certPrivate # NoFile
    /\ local[c].userKey = NoVal
    /\ ctype[d] = "core" /\ vpc[d] = "returned" /\ Resolves(d)
    /\ local[d].userKey # NoVal /\ local[d].certPrivate = NoFile
    /\ credState = "ok"
====
